---- MODULE Spec2Model ----
(***************************************************************************)
(* Model of the Nexus Miners game engine (game.py): the hex board, the     *)
(* conduit map, the action-point economy, the three player actions, the    *)
(* win check and the turn machine.                                         *)
(***************************************************************************)
EXTENDS Integers, Sequences, FiniteSets, TLC

\* ---------------------------------------------------------------- constants
GRID_RADIUS == 4
BASE_AP_PER_TURN == 4
RESOURCE_BONUS_AP == 1
WIN_CONDITION_RESOURCES == 3
COST_PLACE_CONDUIT == 1
COST_REINFORCE_CONDUIT == 2
COST_SABOTAGE_CONDUIT == 3

\* ------------------------------------------------------------------- bounds
\* next_turn is explored while the turn counter is below MaxTurn.
MaxTurn == 3

\* app.py takes events while the turn counter is below this
MaxAppTurn == 8

\* with two events in flight, app.py takes events while the turn counter is below this
MaxRaceTurn == 3

\* ------------------------------------------------------------------ helpers
Abs(x) == IF x < 0 THEN -x ELSE x

Max2(a, b) == IF a >= b THEN a ELSE b

Min2(a, b) == IF a <= b THEN a ELSE b

SeqToSet(s) == {s[i] : i \in DOMAIN s}

InSeq(x, s) == \E i \in DOMAIN s : s[i] = x

\* Python's None
None == "None"

\* ---------------------------------------------------------------- the grid
Range == (-GRID_RADIUS)..GRID_RADIUS

Side == 2 * GRID_RADIUS + 1

\* max(abs(h.q), abs(h.r), abs(h.s)) with s = -q - r
HexDist(c) == Max2(Max2(Abs(c[1]), Abs(c[2])), Abs(-c[1] - c[2]))

\* The keys of Board.hexes in insertion order (q ascending, then r ascending).
GridOrder ==
    SelectSeq([k \in 1..(Side * Side) |->
                  <<((k - 1) \div Side) - GRID_RADIUS, ((k - 1) % Side) - GRID_RADIUS>>],
              LAMBDA c : (-c[1] - c[2]) \in Range)

_generate_grid == SeqToSet(GridOrder)

edge_hexes == SelectSeq(GridOrder, LAMBDA c : HexDist(c) = GRID_RADIUS)

internal_hexes == SelectSeq(GridOrder, LAMBDA c : HexDist(c) < GRID_RADIUS)

directions == << <<1, 0>>, <<0, 1>>, <<-1, 1>>, <<-1, 0>>, <<0, -1>>, <<1, -1>> >>

\* Board.get_neighbors: the offsets, in order, that land on a key of hexes.
get_neighbors(hex_coord) ==
    SelectSeq([i \in 1..6 |-> <<hex_coord[1] + directions[i][1],
                                hex_coord[2] + directions[i][2]>>],
              LAMBDA n : n \in _generate_grid)

\* tuple(sorted((a, b))): Python orders tuples lexicographically.
SortedEdge(a, b) ==
    IF a[1] < b[1] \/ (a[1] = b[1] /\ a[2] <= b[2]) THEN <<a, b>> ELSE <<b, a>>

\* ------------------------------------------------------------ board set-up
resource_types == <<"IRON", "CARBON", "POWER">>

\* potential_resource_spots before the shuffle: internal hexes with no resource
\* (the Nexus is already tagged).
potential_resource_spots == SelectSeq(internal_hexes, LAMBDA c : c # <<0, 0>>)

num_resource_nodes(n) == Min2(Len(potential_resource_spots), Max2(9, n * 3))

\* index of player i (0-based) in edge_hexes
\* a spacing with the division the wrong way round
base_indices_Swapped(i, n) == i * (n \div Len(edge_hexes))

base_indices(i, n) == i * (Len(edge_hexes) \div n)

\* Player.base_hex after _place_special_hexes, for the lobby order `lobby`.
BaseHexOf(lobby) ==
    [p \in SeqToSet(lobby) |->
        LET i == CHOOSE j \in DOMAIN lobby : lobby[j] = p
        IN  edge_hexes[base_indices(i - 1, Len(lobby)) + 1]]

\* Board.hexes after _place_special_hexes; `spots` is the prefix of the
\* shuffled potential_resource_spots that receives resources.
HexesOf(lobby, spots) ==
    [c \in _generate_grid |->
        [resource |->
            IF c = <<0, 0>> THEN "NEXUS"
            ELSE IF InSeq(c, spots)
                 THEN LET i == CHOOSE j \in DOMAIN spots : spots[j] = c
                      IN  resource_types[((i - 1) % Len(resource_types)) + 1]
                 ELSE None,
         is_base_for |->
            LET owners == {j \in DOMAIN lobby :
                              edge_hexes[base_indices(j - 1, Len(lobby)) + 1] = c}
            IN  IF owners = {} THEN None
                ELSE lobby[CHOOSE j \in owners : \A k \in owners : k <= j]]]

\* ------------------------------------------------------- inputs of the model
\* The lobby handed to Game(player_details): two players (app.py starts a
\* game with 2 to 4 ready players).
Lobby == <<"A", "B">>

\* Outcomes of random.shuffle(self.players)
Shuffles(lobby) ==
    {s \in [DOMAIN lobby -> SeqToSet(lobby)] : \A p \in SeqToSet(lobby) : InSeq(p, s)}

\* Outcomes of random.shuffle(potential_resource_spots), cut to the cells that
\* receive a resource: one board rich in resources on the lanes between the
\* bases and the Nexus, one poor.
ResourceLayouts ==
    { << <<-3, 0>>, <<-2, 0>>, <<-1, 0>>, <<0, 3>>, <<0, 2>>, <<0, 1>>,
         <<1, 0>>, <<2, 0>>, <<3, -1>> >>,
      << <<-3, 0>>, <<0, 3>>, <<2, -1>>, <<1, 1>>, <<-1, -1>>, <<3, -2>>,
         <<1, -2>>, <<-2, -1>>, <<2, 1>> >> }

\* Coordinates a payload may name: the lane from A's base (-4,0) to the Nexus,
\* B's base (0,4) and a coordinate outside the grid next to B's base.
HexInputs ==
    { <<-4, 0>>, <<-3, 0>>, <<-2, 0>>, <<-1, 0>>, <<0, 0>>,
      <<0, 4>>, <<0, 5>> }

\* (hex1, hex2) of a payload: every ordered pair of HexInputs one direction
\* apart, one pair of cells two steps apart and one pair naming a cell twice.
PairInputs ==
    {pr \in HexInputs \X HexInputs :
        \E i \in DOMAIN directions :
            pr[2] = <<pr[1][1] + directions[i][1], pr[1][2] + directions[i][2]>>}
    \cup { << <<-4, 0>>, <<-2, 0>> >>, << <<-3, 0>>, <<-3, 0>> >> }

\* action payloads {'type': ..., 'hex1': ..., 'hex2': ...}; "end_turn" stands
\* for a type with no handler.
ActionInputs ==
    {[type |-> t, hex1 |-> pr[1], hex2 |-> pr[2]] :
        t \in {"place_conduit", "reinforce_conduit", "sabotage_conduit"},
        pr \in PairInputs}
    \cup {[type |-> "end_turn", hex1 |-> <<-4, 0>>, hex2 |-> <<-3, 0>>]}

\* 2 <= player_count <= 4: the lobby sizes a game is created with
MIN_PLAYERS == 2

MAX_PLAYERS == 4

\* The lobbies a board is created for, one of each size.
Lobbies == {SubSeq(<<"A", "B", "C", "D">>, 1, n) : n \in MIN_PLAYERS .. MAX_PLAYERS}

\* Outcomes of random.shuffle(potential_resource_spots) for n players, cut to
\* the cells that receive a resource: every rotation of the list.
LayoutsFor(n) ==
    {[i \in 1 .. num_resource_nodes(n) |->
         potential_resource_spots[((k + i - 1) % Len(potential_resource_spots)) + 1]] :
        k \in 0 .. (Len(potential_resource_spots) - 1)}

\* identities that may call in
ActorIds == SeqToSet(Lobby)

\* -------------------------------------------------------------------- state
VARIABLES
    players,            \* Game.players: ids in turn order
    base_hex,           \* Player.base_hex per player id
    hexes,              \* Board.hexes: coord -> [resource, is_base_for]
    radius,             \* Board.radius
    conduits,           \* Board.conduits: edge -> [player_id, reinforced]
    action_points,      \* Player.action_points per player id
    current_player_idx, \* Game.current_player_idx (0-based)
    turn_number,        \* Game.turn_number
    game_over,          \* Game.game_over
    winner,             \* Game.winner (player id or None)
    message,            \* Game.message
    call,               \* the method of Game called last
    caller,             \* the player_id argument of that call (None if it has none)
    success,            \* what handle_player_action returned, when it was called last
    inflight            \* app.py: the player_action events being handled

vars == <<players, base_hex, hexes, radius, conduits, action_points,
          current_player_idx, turn_number, game_over, winner, message,
          call, caller, success, inflight>>

\* The player_action events app.py may be handling at the same time.
Slots == {"e1", "e2"}

\* An event of app.py's handle_player_action: request.sid, action_data and the
\* place the handler has reached ("idle": no event; "act": passed the turn
\* check of line 122; "advance": game.handle_player_action returned True).
Event(sid, action, pc) == [sid |-> sid, action |-> action, pc |-> pc]

NoAction == [type |-> None, hex1 |-> <<0, 0>>, hex2 |-> <<0, 0>>]

Idle == Event(None, NoAction, "idle")

setup == <<players, base_hex, hexes, radius>>

\* the state an action may touch, apart from the message
core == <<conduits, action_points, current_player_idx, turn_number, game_over, winner>>

\* f-string messages: the text, the player name and the number they embed
Msg(text, name, n) == [text |-> text, name |-> name, n |-> n]

\* self.conduits = {}
NoConduits == [e \in {} |-> [player_id |-> None, reinforced |-> FALSE]]

\* ------------------------------------------------------------ pure functions
get_current_player == players[current_player_idx + 1]

\* a filter that keeps every player's conduits
player_conduits_AllOwners(C, player) == DOMAIN C

\* {edge for edge, data in conduits.items() if data['player_id'] == player.id}
player_conduits(C, player) == {e \in DOMAIN C : C[e].player_id = player}

\* the while loop of _is_connected: queue q, visited set
RECURSIVE BFS(_, _, _, _)
BFS(q, visited, end_node, pc) ==
    IF q = <<>> THEN FALSE
    ELSE \E current_hex \in {Head(q)} :
            IF current_hex = end_node THEN TRUE
            ELSE \* fresh: the neighbours appended in this pass, in order
                 \E fresh \in {SelectSeq(get_neighbors(current_hex), LAMBDA n :
                                  SortedEdge(current_hex, n) \in pc /\ n \notin visited)} :
                    BFS(Tail(q) \o fresh, visited \cup SeqToSet(fresh), end_node, pc)

_is_connected(C, player, start_node, end_node) ==
    \E pc \in {player_conduits(C, player)} :
        IF pc = {} THEN FALSE
        ELSE BFS(<<start_node>>, {start_node}, end_node, pc)

_get_controlled_resources(C, player) ==
    {c \in DOMAIN hexes :
        /\ hexes[c].resource # None
        /\ hexes[c].resource # "NEXUS"
        /\ _is_connected(C, player, base_hex[player], c)}

\* a win check that forgets the resource requirement
_check_win_condition_NexusOnly(C, player) ==
    _is_connected(C, player, base_hex[player], <<0, 0>>)

\* a win check that asks for more than WIN_CONDITION_RESOURCES resources
_check_win_condition_OffByOne(C, player) ==
    IF ~_is_connected(C, player, base_hex[player], <<0, 0>>) THEN FALSE
    ELSE IF Cardinality(_get_controlled_resources(C, player)) <= WIN_CONDITION_RESOURCES
         THEN FALSE
         ELSE TRUE

_check_win_condition(C, player) ==
    IF ~_is_connected(C, player, base_hex[player], <<0, 0>>) THEN FALSE
    ELSE IF Cardinality(_get_controlled_resources(C, player)) < WIN_CONDITION_RESOURCES
         THEN FALSE
         ELSE TRUE

\* ------------------------------------------------------------------ handlers
\* a cost check that only asks for some action points
InsufficientAP_AnyPoints(player, cost) == action_points[player] <= 0

\* player.action_points < COST_...
InsufficientAP(player, cost) == action_points[player] < cost

\* A handler's outcome: the return value and the fields it leaves behind.
Outcome(ok, C, ap, msg) ==
    [success |-> ok, conduits |-> C, action_points |-> ap, message |-> msg]

Rejected(text) == Outcome(FALSE, conduits, action_points, Msg(text, "", 0))

\* a place handler that deducts the cost before it validates the edge
_handle_place_conduit_PaysFirst(player, action) ==
    IF InsufficientAP(player, COST_PLACE_CONDUIT)
    THEN Rejected("Not enough AP to place a conduit.")
    ELSE LET hex1_coord == action.hex1
             hex2_coord == action.hex2
             edge == SortedEdge(hex1_coord, hex2_coord)
             is_adjacent_to_network ==
                 \/ base_hex[player] \in {edge[1], edge[2]}
                 \/ \E existing_edge \in DOMAIN conduits :
                       /\ conduits[existing_edge].player_id = player
                       /\ \/ hex1_coord \in {existing_edge[1], existing_edge[2]}
                          \/ hex2_coord \in {existing_edge[1], existing_edge[2]}
             Charged(text) ==
                 Outcome(FALSE, conduits,
                         [action_points EXCEPT ![player] = @ - COST_PLACE_CONDUIT],
                         Msg(text, "", 0))
         IN  IF edge \in DOMAIN conduits
             THEN Charged("A conduit already exists there.")
             ELSE IF ~InSeq(hex2_coord, get_neighbors(hex1_coord))
             THEN Charged("Hexes are not adjacent.")
             ELSE IF ~is_adjacent_to_network
             THEN Charged("Must place conduits adjacent to your existing network.")
             ELSE Outcome(TRUE,
                          [e \in DOMAIN conduits \cup {edge} |->
                              IF e = edge
                              THEN [player_id |-> player, reinforced |-> FALSE]
                              ELSE conduits[e]],
                          [action_points EXCEPT ![player] = @ - COST_PLACE_CONDUIT],
                          Msg("{name} placed a conduit.", player, 0))

_handle_place_conduit(player, action) ==
    IF InsufficientAP(player, COST_PLACE_CONDUIT)
    THEN Rejected("Not enough AP to place a conduit.")
    ELSE LET hex1_coord == action.hex1
             hex2_coord == action.hex2
             edge == SortedEdge(hex1_coord, hex2_coord)
             is_adjacent_to_network ==
                 \/ base_hex[player] \in {edge[1], edge[2]}
                 \/ \E existing_edge \in DOMAIN conduits :
                       /\ conduits[existing_edge].player_id = player
                       /\ \/ hex1_coord \in {existing_edge[1], existing_edge[2]}
                          \/ hex2_coord \in {existing_edge[1], existing_edge[2]}
         IN  IF edge \in DOMAIN conduits
             THEN Rejected("A conduit already exists there.")
             ELSE IF ~InSeq(hex2_coord, get_neighbors(hex1_coord))
             THEN Rejected("Hexes are not adjacent.")
             ELSE IF ~is_adjacent_to_network
             THEN Rejected("Must place conduits adjacent to your existing network.")
             ELSE Outcome(TRUE,
                          [e \in DOMAIN conduits \cup {edge} |->
                              IF e = edge
                              THEN [player_id |-> player, reinforced |-> FALSE]
                              ELSE conduits[e]],
                          [action_points EXCEPT ![player] = @ - COST_PLACE_CONDUIT],
                          Msg("{name} placed a conduit.", player, 0))

\* an ownership test that only asks for a conduit on the edge
NotOwnConduit_AnyOwner(edge, player) == edge \notin DOMAIN conduits

\* not conduit or conduit['player_id'] != player.id
NotOwnConduit(edge, player) ==
    edge \notin DOMAIN conduits \/ conduits[edge].player_id # player

_handle_reinforce_conduit(player, action) ==
    IF InsufficientAP(player, COST_REINFORCE_CONDUIT)
    THEN Rejected("Not enough AP to reinforce.")
    ELSE LET edge == SortedEdge(action.hex1, action.hex2)
         IN  IF NotOwnConduit(edge, player)
             THEN Rejected("You can only reinforce your own conduits.")
             ELSE IF conduits[edge].reinforced
             THEN Rejected("Conduit is already reinforced.")
             ELSE Outcome(TRUE,
                          [conduits EXCEPT ![edge].reinforced = TRUE],
                          [action_points EXCEPT ![player] = @ - COST_REINFORCE_CONDUIT],
                          Msg("{name} reinforced a conduit.", player, 0))

\* a sabotage that never looks at the reinforced flag
SabotageImmune_Never(conduit) == FALSE

\* if conduit['reinforced'] (in _handle_sabotage_conduit)
SabotageImmune(conduit) == conduit.reinforced

\* a target test that lets a player sabotage their own conduit
NotSabotageTarget_OwnAllowed(edge, player) == edge \notin DOMAIN conduits

\* not conduit or conduit['player_id'] == player.id
NotSabotageTarget(edge, player) ==
    edge \notin DOMAIN conduits \/ conduits[edge].player_id = player

_handle_sabotage_conduit(player, action) ==
    IF InsufficientAP(player, COST_SABOTAGE_CONDUIT)
    THEN Rejected("Not enough AP to sabotage.")
    ELSE LET edge == SortedEdge(action.hex1, action.hex2)
         IN  IF NotSabotageTarget(edge, player)
             THEN Rejected("Cannot sabotage your own or non-existent conduits.")
             ELSE IF SabotageImmune(conduits[edge])
             THEN Rejected("Cannot sabotage a reinforced conduit.")
             ELSE Outcome(TRUE,
                          [e \in DOMAIN conduits \ {edge} |-> conduits[e]],
                          [action_points EXCEPT ![player] = @ - COST_SABOTAGE_CONDUIT],
                          Msg("{name} sabotaged an opponent's conduit.", player, 0))

\* action_handlers.get(action_type) is not None
KnownActionType(action_type) ==
    action_type \in {"place_conduit", "reinforce_conduit", "sabotage_conduit"}

\* handler(player, action)
Dispatch(player, action) ==
    IF action.type = "place_conduit" THEN _handle_place_conduit(player, action)
    ELSE IF action.type = "reinforce_conduit" THEN _handle_reinforce_conduit(player, action)
    ELSE _handle_sabotage_conduit(player, action)

\* an entry check that forgets whose turn it is
NotTurnOrOver_OnlyOver(player_id) == game_over

\* player.id != player_id or self.game_over
NotTurnOrOver(player_id) == get_current_player # player_id \/ game_over

\* ------------------------------------------------------------------- actions
\* Game.handle_player_action(player_id, action)
handle_player_action(player_id, action) ==
    /\ call' = "handle_player_action"
    /\ caller' = player_id
    /\ UNCHANGED <<setup, current_player_idx, turn_number>>
    /\ IF NotTurnOrOver(player_id)
       THEN /\ message' = Msg("Not your turn or game is over.", "", 0)
            /\ success' = FALSE
            /\ UNCHANGED <<conduits, action_points, game_over, winner>>
       ELSE IF ~KnownActionType(action.type)
       THEN /\ message' = Msg("Invalid action type.", "", 0)
            /\ success' = FALSE
            /\ UNCHANGED <<conduits, action_points, game_over, winner>>
       ELSE \E player \in {get_current_player} : \E out \in {Dispatch(player, action)} :
                /\ conduits' = out.conduits
                /\ action_points' = out.action_points
                /\ success' = out.success
                /\ IF out.success /\ _check_win_condition(out.conduits, player)
                   THEN /\ game_over' = TRUE
                        /\ winner' = player
                        /\ message' = Msg("Game Over! {name} has connected to the Nexus and wins!",
                                          player, 0)
                   ELSE /\ message' = out.message
                        /\ UNCHANGED <<game_over, winner>>

\* BASE_AP_PER_TURN + bonus_ap, for the conduit map C
FreshAP(C, player) ==
    BASE_AP_PER_TURN + Cardinality(_get_controlled_resources(C, player)) * RESOURCE_BONUS_AP

\* a turn start that adds to the points left over
TurnActionPoints_Accumulates(player) == action_points[player] + FreshAP(conduits, player)

\* the value start_turn assigns to player.action_points
TurnActionPoints(player) == FreshAP(conduits, player)

\* Game.start_turn with the current player at index idx
start_turn(idx) ==
    \E player \in {players[idx + 1]} : \E ap \in {TurnActionPoints(player)} :
        /\ turn_number' = turn_number + 1
        /\ action_points' = [action_points EXCEPT ![player] = ap]
        /\ message' = Msg("{name}'s turn. AP: {n}", player, ap)

\* a next_turn that does not look at game_over
NextTurnIsNoOp_Never == FALSE

\* if self.game_over: return
NextTurnIsNoOp == game_over

\* an index update that forgets to step
NextPlayerIdx_Stays == current_player_idx % Len(players)

\* (self.current_player_idx + 1) % len(self.players)
NextPlayerIdx == (current_player_idx + 1) % Len(players)

\* a next_turn that rotates the player list instead of moving the index
next_turn_RotatesPlayers ==
    /\ call' = "next_turn"
    /\ caller' = None
    /\ success' = FALSE
    /\ UNCHANGED <<base_hex, hexes, radius, conduits, game_over, winner>>
    /\ IF NextTurnIsNoOp
       THEN UNCHANGED <<players, current_player_idx, turn_number, action_points, message>>
       ELSE /\ players' = Tail(players) \o <<Head(players)>>
            /\ UNCHANGED current_player_idx
            /\ \E player \in {players[2]} : \E ap \in {TurnActionPoints(player)} :
                  /\ turn_number' = turn_number + 1
                  /\ action_points' = [action_points EXCEPT ![player] = ap]
                  /\ message' = Msg("{name}'s turn. AP: {n}", player, ap)

\* Game.next_turn()
next_turn ==
    /\ call' = "next_turn"
    /\ caller' = None
    /\ success' = FALSE
    /\ UNCHANGED <<setup, conduits, game_over, winner>>
    /\ IF NextTurnIsNoOp
       THEN UNCHANGED <<current_player_idx, turn_number, action_points, message>>
       ELSE /\ current_player_idx' = NextPlayerIdx
            /\ start_turn(NextPlayerIdx)

\* ---------------------------------------------------------- specification
\* The state after Game.__init__: board built, players shuffled, first turn
\* started (no conduit exists, so the first player gets BASE_AP_PER_TURN).
\* Game.__init__(player_details = lobby), with the outcomes of its two shuffles
InitWith(lobby, order, spots) ==
    /\ players = order
    /\ base_hex = BaseHexOf(lobby)
    /\ hexes = HexesOf(lobby, spots)
    /\ radius = GRID_RADIUS
    /\ conduits = NoConduits
    /\ action_points = [p \in SeqToSet(lobby) |->
                           IF p = order[1] THEN FreshAP(NoConduits, p) ELSE 0]
    /\ current_player_idx = 0
    /\ turn_number = 1
    /\ game_over = FALSE
    /\ winner = None
    /\ message = Msg("{name}'s turn. AP: {n}", order[1], FreshAP(NoConduits, order[1]))
    /\ call = "__init__"
    /\ caller = None
    /\ success = FALSE
    /\ inflight = [s \in Slots |-> Idle]

Init ==
    \E order \in Shuffles(Lobby), spots \in ResourceLayouts :
        InitWith(Lobby, order, spots)

\* A game created for any lobby of 2 to 4 players
BoardInit ==
    \E lobby \in Lobbies :
        \E order \in Shuffles(lobby), spots \in LayoutsFor(Len(lobby)) :
            InitWith(lobby, order, spots)

HandlePlayerAction ==
    /\ \E player_id \in ActorIds, action \in ActionInputs :
          handle_player_action(player_id, action)
    /\ UNCHANGED inflight

NextTurn ==
    /\ NextTurnIsNoOp \/ turn_number < MaxTurn
    /\ next_turn
    /\ UNCHANGED inflight

Next == HandlePlayerAction \/ NextTurn

Spec == Init /\ [][Next]_vars

\* --------------------------------------------- app.py: the player_action handler
\* action_data the clients send: the four conduits of A's lane to the Nexus,
\* two conduits from B's base inwards, a reinforcement, a sabotage and a type
\* the game does not know.
AppInputs ==
    { [type |-> "place_conduit", hex1 |-> <<-4, 0>>, hex2 |-> <<-3, 0>>],
      [type |-> "place_conduit", hex1 |-> <<-3, 0>>, hex2 |-> <<-2, 0>>],
      [type |-> "place_conduit", hex1 |-> <<-2, 0>>, hex2 |-> <<-1, 0>>],
      [type |-> "place_conduit", hex1 |-> <<-1, 0>>, hex2 |-> <<0, 0>>],
      [type |-> "place_conduit", hex1 |-> <<0, 4>>, hex2 |-> <<0, 3>>],
      [type |-> "place_conduit", hex1 |-> <<0, 3>>, hex2 |-> <<0, 2>>],
      [type |-> "reinforce_conduit", hex1 |-> <<0, 3>>, hex2 |-> <<0, 4>>],
      [type |-> "sabotage_conduit", hex1 |-> <<-4, 0>>, hex2 |-> <<-3, 0>>],
      [type |-> "end_turn", hex1 |-> <<-4, 0>>, hex2 |-> <<-3, 0>>] }

\* a handler that advances the turn whatever the action returned
ShouldAdvance_Always(ok) == TRUE

\* `if success:` of app.py line 129
ShouldAdvance(ok) == ok

\* app.py lines 113-124: the handler starts for the event (sid, action_data)
\* and compares the current player's id with the sender's; a sender who is
\* not the current player gets "Not your turn." and the game is not called.
AppTurnCheck(slot, sid, action) ==
    /\ inflight[slot].pc = "idle"
    /\ IF get_current_player # sid
       THEN UNCHANGED inflight
       ELSE inflight' = [inflight EXCEPT ![slot] = Event(sid, action, "act")]
    /\ UNCHANGED <<setup, core, message, call, caller, success>>

\* app.py line 126: success = game.handle_player_action(player_sid, action_data)
AppAct(slot) ==
    /\ inflight[slot].pc = "act"
    /\ handle_player_action(inflight[slot].sid, inflight[slot].action)
    /\ inflight' = [inflight EXCEPT ![slot] =
                       IF ShouldAdvance(success') THEN Event(None, NoAction, "advance")
                       ELSE Idle]

\* app.py lines 130-134: if not game.game_over: game.next_turn()
AppAdvance(slot) ==
    /\ inflight[slot].pc = "advance"
    /\ IF ~game_over THEN next_turn
       ELSE UNCHANGED <<setup, core, message, call, caller, success>>
    /\ inflight' = [inflight EXCEPT ![slot] = Idle]

\* One event at a time: the handler takes an event only when no other is
\* being handled.
SerialReceive ==
    /\ turn_number < MaxAppTurn
    /\ \A s \in Slots : inflight[s].pc = "idle"
    /\ \E sid \in ActorIds, action \in AppInputs : AppTurnCheck("e1", sid, action)

SerialAct == AppAct("e1")

SerialAdvance == AppAdvance("e1")

SerialNext == SerialReceive \/ SerialAct \/ SerialAdvance

AppSerialSpec == Init /\ [][SerialNext]_vars

\* Two events handled at the same time, their steps interleaved; the second
\* slot is taken only while the first is busy.
RaceReceive ==
    /\ turn_number < MaxRaceTurn
    /\ \E slot \in Slots, sid \in ActorIds, action \in AppInputs :
          /\ slot = "e2" => inflight["e1"].pc # "idle"
          /\ AppTurnCheck(slot, sid, action)

RaceAct == \E slot \in Slots : AppAct(slot)

RaceAdvance == \E slot \in Slots : AppAdvance(slot)

RaceNext == RaceReceive \/ RaceAct \/ RaceAdvance

AppRaceSpec == Init /\ [][RaceNext]_vars

\* action_data of a place_conduit and of a reinforce_conduit event
PlaceEvent(hex1, hex2) == [type |-> "place_conduit", hex1 |-> hex1, hex2 |-> hex2]

ReinforceEvent(hex1, hex2) == [type |-> "reinforce_conduit", hex1 |-> hex1, hex2 |-> hex2]

\* The action_data sent in one long game, turn by turn (entry t is what the
\* clients send during turn t): the first player fills the corner around the
\* base (-4,0) with conduits, the second player walks from (0,4) along the rim
\* and takes every other edge at those cells, then both reinforce all they own.
GameRecord ==
    << PlaceEvent(<<-5, 0>>, <<-4, 0>>), PlaceEvent(<<0, 4>>, <<-1, 4>>),
       PlaceEvent(<<-5, 1>>, <<-4, 0>>), PlaceEvent(<<-1, 4>>, <<-2, 4>>),
       PlaceEvent(<<-5, 1>>, <<-4, 1>>), PlaceEvent(<<-2, 4>>, <<-3, 4>>),
       PlaceEvent(<<-5, 2>>, <<-4, 1>>), PlaceEvent(<<-3, 4>>, <<-4, 4>>),
       PlaceEvent(<<-5, 2>>, <<-4, 2>>), PlaceEvent(<<-4, 4>>, <<-4, 3>>),
       PlaceEvent(<<-4, -1>>, <<-4, 0>>), PlaceEvent(<<-4, 3>>, <<-4, 2>>),
       PlaceEvent(<<-4, -1>>, <<-3, -1>>), PlaceEvent(<<-5, 3>>, <<-4, 2>>),
       PlaceEvent(<<-4, 1>>, <<-4, 0>>), PlaceEvent(<<-3, 2>>, <<-4, 2>>),
       PlaceEvent(<<-3, -1>>, <<-4, 0>>), PlaceEvent(<<-3, 2>>, <<-3, 1>>),
       PlaceEvent(<<-3, 0>>, <<-4, 0>>), PlaceEvent(<<-2, 0>>, <<-3, 1>>),
       PlaceEvent(<<-4, 2>>, <<-4, 1>>), PlaceEvent(<<-2, 0>>, <<-3, 0>>),
       PlaceEvent(<<-3, 0>>, <<-4, 1>>), PlaceEvent(<<-2, -1>>, <<-3, 0>>),
       PlaceEvent(<<-3, 1>>, <<-4, 1>>), PlaceEvent(<<-2, -1>>, <<-3, -1>>),
       PlaceEvent(<<-3, 1>>, <<-4, 2>>), PlaceEvent(<<-3, -2>>, <<-3, -1>>),
       PlaceEvent(<<-3, 0>>, <<-3, -1>>), PlaceEvent(<<-2, -2>>, <<-3, -1>>),
       PlaceEvent(<<-3, 1>>, <<-3, 0>>), PlaceEvent(<<-2, 1>>, <<-3, 1>>),
       ReinforceEvent(<<-5, 0>>, <<-4, 0>>), ReinforceEvent(<<0, 4>>, <<-1, 4>>),
       ReinforceEvent(<<-5, 1>>, <<-4, 0>>), ReinforceEvent(<<-1, 4>>, <<-2, 4>>),
       ReinforceEvent(<<-5, 1>>, <<-4, 1>>), ReinforceEvent(<<-2, 4>>, <<-3, 4>>),
       ReinforceEvent(<<-5, 2>>, <<-4, 1>>), ReinforceEvent(<<-3, 4>>, <<-4, 4>>),
       ReinforceEvent(<<-5, 2>>, <<-4, 2>>), ReinforceEvent(<<-4, 4>>, <<-4, 3>>),
       ReinforceEvent(<<-4, -1>>, <<-4, 0>>), ReinforceEvent(<<-4, 3>>, <<-4, 2>>),
       ReinforceEvent(<<-4, -1>>, <<-3, -1>>), ReinforceEvent(<<-5, 3>>, <<-4, 2>>),
       ReinforceEvent(<<-4, 1>>, <<-4, 0>>), ReinforceEvent(<<-3, 2>>, <<-4, 2>>),
       ReinforceEvent(<<-3, -1>>, <<-4, 0>>), ReinforceEvent(<<-3, 2>>, <<-3, 1>>),
       ReinforceEvent(<<-3, 0>>, <<-4, 0>>), ReinforceEvent(<<-2, 0>>, <<-3, 1>>),
       ReinforceEvent(<<-4, 2>>, <<-4, 1>>), ReinforceEvent(<<-2, 0>>, <<-3, 0>>),
       ReinforceEvent(<<-3, 0>>, <<-4, 1>>), ReinforceEvent(<<-2, -1>>, <<-3, 0>>),
       ReinforceEvent(<<-3, 1>>, <<-4, 1>>), ReinforceEvent(<<-2, -1>>, <<-3, -1>>),
       ReinforceEvent(<<-3, 1>>, <<-4, 2>>), ReinforceEvent(<<-3, -2>>, <<-3, -1>>),
       ReinforceEvent(<<-3, 0>>, <<-3, -1>>), ReinforceEvent(<<-2, -2>>, <<-3, -1>>),
       ReinforceEvent(<<-3, 1>>, <<-3, 0>>), ReinforceEvent(<<-2, 1>>, <<-3, 1>>) >>

\* The handler takes the event of the current turn of the record, from any
\* client, while no other event is being handled.
RecordReceive ==
    /\ turn_number <= Len(GameRecord)
    /\ \A s \in Slots : inflight[s].pc = "idle"
    /\ \E sid \in ActorIds : AppTurnCheck("e1", sid, GameRecord[turn_number])

RecordNext == RecordReceive \/ SerialAct \/ SerialAdvance

AppRecordSpec == Init /\ [][RecordNext]_vars

\* Games of every lobby size, with turns passing: the board after creation.
BoardSpec == BoardInit /\ [][NextTurn]_vars

\* The calls the game accepts: a rejected call changes nothing of the game
\* but the reply, so every step that changes the conduits is one of these.
AcceptedAction == HandlePlayerAction /\ success'

AcceptedNext == AcceptedAction \/ NextTurn

AcceptedSpec == Init /\ [][AcceptedNext]_vars

\* ------------------------------------------- notions the properties use
\* Two coordinates are grid-adjacent: both are cells, one step apart.
GridAdjacent(a, b) ==
    /\ a \in DOMAIN hexes
    /\ b \in DOMAIN hexes
    /\ HexDist(<<a[1] - b[1], a[2] - b[2]>>) = 1

\* The cells linked to the cells of S by a path of edges of E, S included.
RECURSIVE Linked(_, _)
Linked(S, E) ==
    LET T == S \cup {c \in DOMAIN hexes :
                        \E e \in E : \/ e[1] = c /\ e[2] \in S
                                     \/ e[2] = c /\ e[1] \in S}
    IN  IF T = S THEN S ELSE Linked(T, E)

\* The cells joined to P's base by P's own conduits in the conduit map C.
Network(C, P) == Linked({base_hex[P]}, {e \in DOMAIN C : C[e].player_id = P})

\* The resource cells P controls in C.
Controlled(C, P) ==
    {c \in Network(C, P) : hexes[c].resource \in {"IRON", "CARBON", "POWER"}}

\* P meets the win condition in C.
Wins(C, P) ==
    /\ <<0, 0>> \in Network(C, P)
    /\ Cardinality(Controlled(C, P)) >= WIN_CONDITION_RESOURCES

Text(t) == message.text = t

Acted == call = "handle_player_action"

C2_GameOverTerminal ==
    [][game_over => (/\ UNCHANGED core
                     /\ (call' = "handle_player_action" => success' = FALSE))]_vars

\* C2 witness: next_turn was called on a finished game.
C2_Witness == game_over /\ call = "next_turn" /\ winner = get_current_player

\* C3 (rejections are silent): a handle_player_action that returns False leaves
\* conduits, action points, turn index, turn counter, game_over and winner
\* unchanged.
C3_RejectedIsSilent ==
    [][(call' = "handle_player_action" /\ success' = FALSE) => UNCHANGED core]_vars

\* C3 witness: the current player, with points to spend, was refused a
\* placement that does not touch their network.
C3_Witness ==
    /\ Acted /\ ~success /\ caller = get_current_player
    /\ Text("Must place conduits adjacent to your existing network.")
    /\ action_points[caller] >= COST_PLACE_CONDUIT

\* C4 (AP never negative): every player's action points are a natural number.
C4_APNonNegative == \A p \in DOMAIN action_points : action_points[p] \in Nat

\* C4 witness: a successful action spent the current player's last points.
C4_Witness ==
    /\ Acted /\ success /\ ~game_over
    /\ action_points[caller] = 0

\* C5 (reinforcement is permanent): a reinforced conduit is, after any step,
\* still on its edge with the same owner and still reinforced.
C5_ReinforcedStays ==
    [][\A e \in DOMAIN conduits :
          conduits[e].reinforced =>
              (e \in DOMAIN conduits' /\ conduits'[e] = conduits[e])]_vars

\* C5 witness: the current player, able to pay, tried to sabotage an
\* opponent's reinforced conduit and was refused.
C5_Witness ==
    /\ Acted /\ ~success /\ caller = get_current_player
    /\ Text("Cannot sabotage a reinforced conduit.")
    /\ \E e \in DOMAIN conduits :
          conduits[e].reinforced /\ conduits[e].player_id # caller

\* C6 (conduits lie on the grid): every key of the conduit map is a pair of
\* two distinct cells of the grid that are grid-adjacent.
C6_ConduitsOnGrid ==
    \A e \in DOMAIN conduits :
        e[1] # e[2] /\ GridAdjacent(e[1], e[2])

\* C7 (win transition): a successful action by the current player P ends the
\* game exactly when P's base reaches the Nexus through P's conduits and P
\* controls at least WIN_CONDITION_RESOURCES resources; then the winner is P
\* and the turn index and counter stay; game_over and winner change in no
\* other step.
C7_WinTransition ==
    [][/\ (call' = "handle_player_action" /\ success')
            => /\ ~game_over
               /\ game_over' <=> Wins(conduits', get_current_player)
               /\ game_over' => /\ winner' = get_current_player
                                /\ caller' = get_current_player
                                /\ UNCHANGED <<current_player_idx, turn_number>>
       /\ (game_over' # game_over \/ winner' # winner)
            => /\ call' = "handle_player_action" /\ success'
               /\ game_over' /\ winner' = caller']_vars

\* C7 witness: the current player's action has just won the game.
C7_Witness ==
    /\ Acted /\ success /\ game_over
    /\ winner = get_current_player /\ caller = winner
    /\ Wins(conduits, winner)

\* C8 (turn start overwrites): right after creation, and after each next_turn
\* that advances, the current player's action points are BASE_AP_PER_TURN plus
\* RESOURCE_BONUS_AP per resource cell they control in the conduit map of that
\* moment, and no other player's points change in that step.
C8_AtCreation ==
    action_points[get_current_player]
        = BASE_AP_PER_TURN + RESOURCE_BONUS_AP * Cardinality(Controlled(conduits, get_current_player))

C8_TurnStart ==
    turn_number' # turn_number =>
        /\ action_points'[players[current_player_idx' + 1]]
              = BASE_AP_PER_TURN
                + RESOURCE_BONUS_AP
                  * Cardinality(Controlled(conduits', players[current_player_idx' + 1]))
        /\ \A p \in DOMAIN action_points :
              p # players[current_player_idx' + 1] => action_points'[p] = action_points[p]

C8_FreshActionPoints == C8_AtCreation /\ [][C8_TurnStart]_vars

\* C8 witness: a turn began for a player who controls a resource and had
\* spent points in an earlier turn.
C8_Witness ==
    /\ call = "next_turn" /\ ~game_over
    /\ turn_number >= 3
    /\ Controlled(conduits, get_current_player) # {}
    /\ action_points[get_current_player] > BASE_AP_PER_TURN

\* C9 (connectivity is reflexive): _is_connected(P, X, X) holds for every
\* player P and cell X, also when P owns no conduit.
C9_Reflexive ==
    \A P \in SeqToSet(players), X \in DOMAIN hexes : _is_connected(conduits, P, X, X)

\* C10 (place_conduit): for the current player P of a running game, a
\* placement succeeds exactly when P has a point, the edge is free, the two
\* cells are grid-adjacent and the edge holds P's base or shares an endpoint
\* with a conduit of P; on success the edge gets an unreinforced conduit of P,
\* P pays one point, and no other conduit or player's points change.
C10_PlaceConduit ==
    [][\A a \in ActionInputs :
          (/\ a.type = "place_conduit"
           /\ ~game_over
           /\ handle_player_action(get_current_player, a))
          => LET P == get_current_player
                 edge == SortedEdge(a.hex1, a.hex2)
                 legal ==
                     /\ action_points[P] >= COST_PLACE_CONDUIT
                     /\ edge \notin DOMAIN conduits
                     /\ GridAdjacent(a.hex1, a.hex2)
                     /\ \/ base_hex[P] \in {a.hex1, a.hex2}
                        \/ \E e \in DOMAIN conduits :
                              /\ conduits[e].player_id = P
                              /\ {e[1], e[2]} \cap {a.hex1, a.hex2} # {}
             IN  /\ success' <=> legal
                 /\ success' =>
                       /\ DOMAIN conduits' = DOMAIN conduits \cup {edge}
                       /\ conduits'[edge] = [player_id |-> P, reinforced |-> FALSE]
                       /\ \A e \in DOMAIN conduits : conduits'[e] = conduits[e]
                       /\ action_points' =
                              [action_points EXCEPT ![P] = @ - COST_PLACE_CONDUIT]]_vars

\* the payload of the given type naming the pair pr
Payload(type, pr) == [type |-> type, hex1 |-> pr[1], hex2 |-> pr[2]]

\* C11 (reinforce_conduit): for the current player P of a running game, a
\* reinforce succeeds exactly when P has COST_REINFORCE_CONDUIT points and the
\* edge holds an unreinforced conduit of P; on success P pays that cost and
\* only that conduit's flag changes, to TRUE. A player with no conduit never
\* succeeds.
C11_Legal(P, pr) ==
    LET edge == SortedEdge(pr[1], pr[2])
    IN  /\ action_points[P] >= COST_REINFORCE_CONDUIT
        /\ edge \in DOMAIN conduits
        /\ conduits[edge].player_id = P
        /\ ~conduits[edge].reinforced

\* every legal reinforce is accepted by the handler
C11_Accepts ==
    ~game_over =>
        \A pr \in PairInputs :
            C11_Legal(get_current_player, pr)
                => Dispatch(get_current_player, Payload("reinforce_conduit", pr)).success

\* every successful reinforce step was legal and has exactly the stated effect
C11_Step ==
    (call' = "handle_player_action" /\ success') =>
        \A pr \in PairInputs :
            handle_player_action(get_current_player, Payload("reinforce_conduit", pr))
            => LET P == get_current_player
                   edge == SortedEdge(pr[1], pr[2])
               IN  /\ C11_Legal(P, pr)
                   /\ {e \in DOMAIN conduits : conduits[e].player_id = P} # {}
                   /\ conduits' = [conduits EXCEPT ![edge].reinforced = TRUE]
                   /\ action_points' =
                          [action_points EXCEPT ![P] = @ - COST_REINFORCE_CONDUIT]

C11_ReinforceConduit == []C11_Accepts /\ [][C11_Step]_vars

\* C11 witness: the current player has just reinforced one of their conduits.
C11_Witness ==
    /\ Acted /\ success /\ caller = get_current_player
    /\ Text("{name} reinforced a conduit.")
    /\ \E e \in DOMAIN conduits :
          conduits[e].reinforced /\ conduits[e].player_id = caller

\* C12 (sabotage_conduit): for the current player P of a running game, a
\* sabotage succeeds exactly when P has COST_SABOTAGE_CONDUIT points and the
\* edge holds an unreinforced conduit of another player; on success P pays
\* that cost, that conduit is removed and every other conduit stays. No
\* player ever removes a conduit of their own.
C12_Legal(P, pr) ==
    LET edge == SortedEdge(pr[1], pr[2])
    IN  /\ action_points[P] >= COST_SABOTAGE_CONDUIT
        /\ edge \in DOMAIN conduits
        /\ conduits[edge].player_id # P
        /\ ~conduits[edge].reinforced

\* every legal sabotage is accepted by the handler
C12_Accepts ==
    ~game_over =>
        \A pr \in PairInputs :
            C12_Legal(get_current_player, pr)
                => Dispatch(get_current_player, Payload("sabotage_conduit", pr)).success

\* every successful sabotage step was legal and has exactly the stated
\* effect; a conduit that disappears belonged to another player than the caller
C12_Step ==
    /\ (call' = "handle_player_action" /\ success') =>
          \A pr \in PairInputs :
              handle_player_action(get_current_player, Payload("sabotage_conduit", pr))
              => LET P == get_current_player
                     edge == SortedEdge(pr[1], pr[2])
                 IN  /\ C12_Legal(P, pr)
                     /\ DOMAIN conduits' = DOMAIN conduits \ {edge}
                     /\ \A e \in DOMAIN conduits' : conduits'[e] = conduits[e]
                     /\ action_points' =
                            [action_points EXCEPT ![P] = @ - COST_SABOTAGE_CONDUIT]
    /\ \A e \in DOMAIN conduits \ DOMAIN conduits' :
          call' = "handle_player_action" /\ conduits[e].player_id # caller'

C12_SabotageConduit == []C12_Accepts /\ [][C12_Step]_vars

\* C12 witness: the current player has just removed an opponent's conduit
\* while owning a conduit of their own.
C12_Witness ==
    /\ Acted /\ success /\ caller = get_current_player
    /\ Text("{name} sabotaged an opponent's conduit.")
    /\ \E e \in DOMAIN conduits : conduits[e].player_id = caller

\* C15 (turn order and counter): the counter is 1 after creation and grows by
\* exactly 1 in each next_turn that advances, and in no other step; that
\* next_turn moves the index from i to (i + 1) mod N, so the index is always
\* (turn_number - 1) mod N over a player list that names every player once.
C15_AtCreation == turn_number = 1 /\ current_player_idx = 0

C15_RoundRobin ==
    /\ current_player_idx = (turn_number - 1) % Len(players)
    /\ \A p \in DOMAIN action_points :
          Cardinality({i \in DOMAIN players : players[i] = p}) = 1

C15_Step ==
    (\/ turn_number' # turn_number
     \/ current_player_idx' # current_player_idx
     \/ (call' = "next_turn" /\ ~game_over))
    => /\ call' = "next_turn" /\ ~game_over
       /\ turn_number' = turn_number + 1
       /\ current_player_idx' = (current_player_idx + 1) % Len(players)

C15_TurnOrder == C15_AtCreation /\ []C15_RoundRobin /\ [][C15_Step]_vars

\* C15 witness: the turn has come back to the first player of the order.
C15_Witness ==
    /\ call = "next_turn" /\ ~game_over
    /\ turn_number = Len(players) + 1
    /\ current_player_idx = 0

\* The coordinates Y with _is_connected(P, X, Y) in the conduit map C; every
\* conduit of the model joins two coordinates of HexInputs.
ConnectedSet(C, P, X) == {Y \in HexInputs : _is_connected(C, P, X, Y)}

\* The edges of the conduits P owns in C.
Owned(C, P) == {e \in DOMAIN C : C[e].player_id = P}

\* C16 (connectivity is monotone): for every player P and cell X, the set of
\* cells connected to X does not shrink in a step that only adds conduits of
\* P, does not grow in a step that only removes conduits of P, and so is
\* unchanged by steps that touch only other players' conduits or a flag.
C16_Monotone ==
    [][conduits' # conduits =>
          \A P \in DOMAIN action_points, X \in HexInputs :
              \E before \in {ConnectedSet(conduits, P, X)} :
              \E after \in {ConnectedSet(conduits', P, X)} :
                  /\ Owned(conduits, P) \subseteq Owned(conduits', P)
                        => before \subseteq after
                  /\ Owned(conduits', P) \subseteq Owned(conduits, P)
                        => after \subseteq before]_vars

\* C16 witness: a sabotage has just removed a conduit of a player who still
\* owns another one, beside conduits of the saboteur.
C16_Witness ==
    /\ Acted /\ success
    /\ Text("{name} sabotaged an opponent's conduit.")
    /\ \E e \in DOMAIN conduits : conduits[e].player_id # caller
    /\ \E e \in DOMAIN conduits : conduits[e].player_id = caller

\* C18 (frame of play): no call changes the cells, their resource tags and
\* base owners, the players' base cells, the radius, or the player order.
C18_Frame == [][UNCHANGED <<players, base_hex, hexes, radius>>]_vars

\* C18 witness: conduits were placed, one was reinforced or removed, and the
\* turn moved on twice.
C18_Witness ==
    /\ call = "next_turn"
    /\ turn_number >= 3
    /\ DOMAIN conduits # {}
    /\ \E p \in DOMAIN action_points : action_points[p] \notin {0, BASE_AP_PER_TURN}

\* C19 (no win goes unclaimed): while game_over is false, no player meets the
\* win condition.
C19_NoUnclaimedWin ==
    ~game_over => \A P \in DOMAIN action_points : ~Wins(conduits, P)

\* C19 witness: the game goes on although a player's base reaches the Nexus.
C19_Witness ==
    /\ ~game_over
    /\ \E P \in DOMAIN action_points : <<0, 0>> \in Network(conduits, P)

\* the payload a with hex1 and hex2 exchanged
Swapped(a) == [type |-> a.type, hex1 |-> a.hex2, hex2 |-> a.hex1]

\* C20 (edges are unordered): whatever a call with (hex1, hex2) = (A, B) does,
\* the call with (B, A) from the same state does too: same return value, same
\* conduits and action points.
C20_EdgesUnordered ==
    ~game_over =>
        \A a \in ActionInputs :
            \E o1 \in {Dispatch(get_current_player, a)} :
            \E o2 \in {Dispatch(get_current_player, Swapped(a))} :
                /\ o1.success = o2.success
                /\ o1.conduits = o2.conduits
                /\ o1.action_points = o2.action_points

\* C17 (board set-up): in a game created for 2 to 4 players exactly one cell
\* is tagged NEXUS and it is (0,0); every player has exactly one base cell, at
\* axial distance radius from the centre; no two players share a base cell;
\* and neither a base cell nor the Nexus is tagged IRON, CARBON or POWER.
C17_BoardSetup ==
    /\ {c \in DOMAIN hexes : hexes[c].resource = "NEXUS"} = {<<0, 0>>}
    /\ \A p \in SeqToSet(players) :
          /\ {c \in DOMAIN hexes : hexes[c].is_base_for = p} = {base_hex[p]}
          /\ HexDist(base_hex[p]) = radius
    /\ \A p, q \in SeqToSet(players) : p # q => base_hex[p] # base_hex[q]
    /\ \A c \in DOMAIN hexes :
          (c = <<0, 0>> \/ hexes[c].is_base_for # None)
              => hexes[c].resource \notin SeqToSet(resource_types)

\* C17 witness: a board for four players, with its twelve resource cells.
C17_Witness ==
    /\ Len(players) = MAX_PLAYERS
    /\ Cardinality({c \in DOMAIN hexes : hexes[c].resource \in SeqToSet(resource_types)})
          = num_resource_nodes(MAX_PLAYERS)

AllIdle == \A s \in Slots : inflight[s].pc = "idle"

\* C13 (app.py advances the turn): next_turn is invoked only right after a
\* handle_player_action of the current player that returned True and left the
\* game going, it then moves the turn by one, and nothing else happens between
\* that action and the next_turn; after a failed or winning action the handler
\* ends without a next_turn. So the current player changes in no other step.
C13_Pending ==
    /\ (Acted /\ success /\ ~game_over) => (\E s \in Slots : inflight[s].pc = "advance")
    /\ (\E s \in Slots : inflight[s].pc = "advance") => (Acted /\ success)

C13_Step ==
    /\ (call' = "next_turn" /\ (call # "next_turn" \/ turn_number' # turn_number))
          => /\ Acted /\ success /\ ~game_over
             /\ caller = get_current_player
             /\ turn_number' = turn_number + 1
             /\ current_player_idx' = (current_player_idx + 1) % Len(players)
    /\ (Acted /\ success /\ ~game_over)
          => (call' = "next_turn" /\ turn_number' = turn_number + 1 /\ AllIdle')
    /\ (current_player_idx' # current_player_idx \/ turn_number' # turn_number)
          => (call' = "next_turn" /\ Acted /\ success /\ caller = get_current_player)

C13_TurnAdvance == []C13_Pending /\ [][C13_Step]_vars

\* C13 witness: turns have passed, and the handler has ended after a winning
\* action without moving the turn.
C13_Witness ==
    /\ AllIdle
    /\ Acted /\ success /\ game_over /\ winner = caller
    /\ turn_number > Len(players)
    /\ caller = get_current_player

\* C14 (one action in flight): two events handled at the same time are never
\* both applied in the same turn: no two handlers stand between a successful
\* game.handle_player_action and their next_turn.
C14_OneApplied ==
    Cardinality({s \in Slots : inflight[s].pc = "advance"}) <= 1

\* Every (hex1, hex2) a call can succeed with: place_conduit needs hex2 on the
\* grid and one direction away from hex1, and conduits exist on such pairs
\* only; so hex1 is a cell or lies one step outside the grid.
AllPairs ==
    {pr \in {<<h, <<h[1] + d[1], h[2] + d[2]>>>> :
                h \in ((-GRID_RADIUS - 1) .. (GRID_RADIUS + 1))
                       \X ((-GRID_RADIUS - 1) .. (GRID_RADIUS + 1)),
                d \in SeqToSet(directions)} :
        pr[2] \in DOMAIN hexes}

AllActions ==
    {Payload(t, pr) : t \in {"place_conduit", "reinforce_conduit", "sabotage_conduit"},
                      pr \in AllPairs}
    \cup {Payload(t, <<pr[2], pr[1]>>) : t \in {"reinforce_conduit", "sabotage_conduit"},
                                         pr \in AllPairs}

\* C21 (the game cannot get stuck): in every state app.py's handler reaches
\* with game_over false, some place, reinforce or sabotage action of the
\* current player succeeds.
C21_CanAct ==
    ~game_over => \E a \in AllActions : Dispatch(get_current_player, a).success

====
